---- MODULE Spec2Model ----
(***************************************************************************)
(* csvio: the CSV decoder (CSVReader.#transform / #flush), the CSV encoder  *)
(* (CSVWriter.arrayToCSVString) and the row transformation stage           *)
(* (CSVTransformer) of src/src/core.js.                                    *)
(*                                                                         *)
(* A character is a one-element string; a text, a chunk and a field are    *)
(* sequences of characters; a row is a sequence of fields.  The empty      *)
(* string '' is the empty sequence.  The reader enqueues                   *)
(* JSON.stringify(row), a snapshot of the row buffer: out holds those     *)
(* snapshots in the order they were enqueued.                              *)
(***************************************************************************)
EXTENDS Integers, Sequences, FiniteSets, TLC

VARIABLES
  row,                   \* CSVReader.#row
  field,                 \* CSVReader.#field
  lastChar,              \* CSVReader.#lastChar
  escapeMode,            \* CSVReader.#escapeMode
  justExitedEscapeMode,  \* CSVReader.#justExitedEscapeMode
  out,                   \* rows enqueued on the TransformStream controller
  chunks,                \* chunks the read stream has delivered to #transform
  done,                  \* #flush has run (the read stream ended)
  written,               \* rows handed to CSVWriter.arrayToCSVString
  file,                  \* the strings written to the file, in file order
  source,                \* createFileStream: its closure and its stream
  csvReader              \* the CSVReader as a ReadableStream

VARIABLES
  options,               \* CSVTransformer.#options
  firstChunk,            \* CSVTransformer.#firstChunk
  batch,                 \* CSVTransformer.#batch (the one array object)
  concurrent,            \* CSVTransformer.#concurrent: indices into invs
  invs,                  \* promises returned by #wrappedFn, in call order
  headerInv,             \* the promise returned by #wrappedHeaderFn
  emitted,               \* chunks enqueued on the transformer's controller
  consumed,              \* chunks the transformer has received
  pc,                    \* where the transformer's current callback stands
  error,                 \* the error the transformer's stream is errored with
  normalized,            \* whether the rows fed to the transformer hold objects
  fn                     \* CSVTransformer.#fn: what the user's functions may do

VARIABLES
  strategy,              \* the ErrorStrategies handler: its factory and options
  iterations,            \* the parameter iterations its closure captured
  calls,                 \* the calls of the handler, in call order
  status,                \* CSVWriter.#status
  received,              \* the chunks the writer's sink was called with
  handle,                \* the file handle of the writer's sink
  wstate,                \* the state of the writer as a WritableStream
  now                    \* what performance.now() returns

rvars == <<row, field, lastChar, escapeMode, justExitedEscapeMode, out,
           chunks, done, written, file, source, csvReader>>

tvars == <<options, firstChunk, batch, concurrent, invs, headerInv, emitted,
           consumed, pc, error, normalized, fn>>

svars == <<strategy, iterations, calls>>

wvars == <<status, received, handle, wstate, now>>

vars == <<row, field, lastChar, escapeMode, justExitedEscapeMode, out,
          chunks, done, written, file, source, csvReader, options,
          firstChunk, batch,
          concurrent, invs, headerInv, emitted, consumed, pc, error,
          normalized, fn, strategy, iterations, calls, status, received,
          handle, wstate, now>>

----------------------------------------------------------------------------
(* Characters *)

COMMA == ","
QUOTE == "\""
CR == "\r"
LF == "\n"
BOM == "FEFF"   \* the one character U+FEFF
NULL == "null"  \* JavaScript null, the initial #lastChar; never a character

Alphabet == {"a", COMMA, QUOTE, CR, LF, BOM}

(* Bounds *)

MaxInput == 4      \* characters delivered to one reader
MaxChunks == 3     \* chunks delivered to one reader
MaxCells == 3      \* fields of all rows written to one file
MaxChars == 2      \* characters of all fields written to one file
ChunkSize == 3     \* characters per chunk when a written file is read back
MaxRowsIn == 4     \* rows delivered to one transformer, the first one included
MaxBatch == 2      \* largest maxBatchSize a transformer is constructed with
MaxConc == 2       \* largest maxConcurrent a transformer is constructed with
MaxOther == 2      \* calls per transformer that do not simply return one row

----------------------------------------------------------------------------
(* Helpers on sequences *)

SeqsUpTo(S, n) == UNION {[1..k -> S] : k \in 0..n}

Range(s) == {s[i] : i \in 1..Len(s)}

Last(s) == s[Len(s)]

RECURSIVE Flatten(_)
Flatten(ss) == IF ss = <<>> THEN <<>> ELSE Head(ss) \o Flatten(Tail(ss))

IsPrefix(s, t) == Len(s) <= Len(t) /\ SubSeq(t, 1, Len(s)) = s

Min(a, b) == IF a <= b THEN a ELSE b

fed == Flatten(chunks)

----------------------------------------------------------------------------
(* CSVReader *)

InitState ==
  [row |-> <<>>, field |-> <<>>, lastChar |-> NULL, escapeMode |-> FALSE,
   justExitedEscapeMode |-> FALSE, out |-> <<>>]

State ==
  [row |-> row, field |-> field, lastChar |-> lastChar,
   escapeMode |-> escapeMode,
   justExitedEscapeMode |-> justExitedEscapeMode, out |-> out]

\* Mutant of StepChar: CR is not ignored but added to the field.
StepCharKeepsCR(st, char) ==
  LET s1 ==
        IF st.escapeMode
        THEN IF char = QUOTE
             THEN [st EXCEPT !.escapeMode = FALSE,
                             !.justExitedEscapeMode = TRUE]
             ELSE [st EXCEPT !.justExitedEscapeMode = FALSE,
                             !.field = Append(@, char)]
        ELSE LET s0 ==
                   IF char = QUOTE
                   THEN IF st.justExitedEscapeMode
                        THEN [st EXCEPT !.escapeMode = TRUE,
                                        !.field = Append(@, char)]
                        ELSE IF st.lastChar \in {COMMA, LF, NULL}
                             THEN [st EXCEPT !.escapeMode = TRUE]
                             ELSE [st EXCEPT !.field = Append(@, char)]
                   ELSE IF char = BOM
                   THEN st
                   ELSE IF char = COMMA
                   THEN [st EXCEPT !.row = Append(@, st.field),
                                   !.field = <<>>]
                   ELSE IF char = LF
                   THEN [st EXCEPT
                           !.out = Append(@, Append(st.row, st.field)),
                           !.row = <<>>,
                           !.field = <<>>]
                   ELSE [st EXCEPT !.field = Append(@, char)]
             IN [s0 EXCEPT !.justExitedEscapeMode = FALSE]
  IN [s1 EXCEPT !.lastChar = char]

\* Mutant of StepChar: the row buffer is not emptied after a row is enqueued.
StepCharKeepsRow(st, char) ==
  LET s1 ==
        IF st.escapeMode
        THEN IF char = QUOTE
             THEN [st EXCEPT !.escapeMode = FALSE,
                             !.justExitedEscapeMode = TRUE]
             ELSE [st EXCEPT !.justExitedEscapeMode = FALSE,
                             !.field = Append(@, char)]
        ELSE LET s0 ==
                   IF char = QUOTE
                   THEN IF st.justExitedEscapeMode
                        THEN [st EXCEPT !.escapeMode = TRUE,
                                        !.field = Append(@, char)]
                        ELSE IF st.lastChar \in {COMMA, LF, NULL}
                             THEN [st EXCEPT !.escapeMode = TRUE]
                             ELSE [st EXCEPT !.field = Append(@, char)]
                   ELSE IF char = CR \/ char = BOM
                   THEN st
                   ELSE IF char = COMMA
                   THEN [st EXCEPT !.row = Append(@, st.field),
                                   !.field = <<>>]
                   ELSE IF char = LF
                   THEN [st EXCEPT
                           !.out = Append(@, Append(st.row, st.field)),
                           !.row = Append(@, st.field),
                           !.field = <<>>]
                   ELSE [st EXCEPT !.field = Append(@, char)]
             IN [s0 EXCEPT !.justExitedEscapeMode = FALSE]
  IN [s1 EXCEPT !.lastChar = char]

\* One iteration of the loop of #transform: the decoder consumes char.
StepChar(st, char) ==
  LET s1 ==
        IF st.escapeMode
        THEN IF char = QUOTE
             THEN [st EXCEPT !.escapeMode = FALSE,
                             !.justExitedEscapeMode = TRUE]
             ELSE [st EXCEPT !.justExitedEscapeMode = FALSE,
                             !.field = Append(@, char)]
        ELSE LET s0 ==
                   IF char = QUOTE
                   THEN IF st.justExitedEscapeMode
                        THEN [st EXCEPT !.escapeMode = TRUE,
                                        !.field = Append(@, char)]
                        ELSE IF st.lastChar \in {COMMA, LF, NULL}
                             THEN [st EXCEPT !.escapeMode = TRUE]
                             ELSE [st EXCEPT !.field = Append(@, char)]
                   ELSE IF char = CR \/ char = BOM
                   THEN st
                   ELSE IF char = COMMA
                   THEN [st EXCEPT !.row = Append(@, st.field),
                                   !.field = <<>>]
                   ELSE IF char = LF
                   THEN [st EXCEPT
                           !.out = Append(@, Append(st.row, st.field)),
                           !.row = <<>>,
                           !.field = <<>>]
                   ELSE [st EXCEPT !.field = Append(@, char)]
             IN [s0 EXCEPT !.justExitedEscapeMode = FALSE]
  IN [s1 EXCEPT !.lastChar = char]

RECURSIVE StepChars(_, _)
StepChars(st, chars) ==
  IF chars = <<>> THEN st
  ELSE StepChars(StepChar(st, Head(chars)), Tail(chars))

\* Mutant of TransformChunk: #lastChar is local to one call of #transform.
TransformChunkLocalLastChar(st, chunk) ==
  StepChars([st EXCEPT !.lastChar = NULL], chunk)

\* #transform(chunk, controller): the loop over the characters of chunk.
TransformChunk(st, chunk) == StepChars(st, chunk)

\* Mutant of FlushState: the blank-file branch is missing.
FlushStateNoBlank(st) ==
  IF st.field # <<>> \/ st.row # <<>>
  THEN [st EXCEPT !.row = Append(@, st.field),
                  !.out = Append(@, Append(st.row, st.field))]
  ELSE st

\* #flush(controller)
FlushState(st) ==
  IF st.field # <<>> \/ st.row # <<>>
  THEN [st EXCEPT !.row = Append(@, st.field),
                  !.out = Append(@, Append(st.row, st.field))]
  ELSE IF st.lastChar = NULL
       THEN [st EXCEPT !.out = Append(@, << <<>> >>)]
       ELSE st

\* The rows a reader emits for a text delivered as one single chunk.
DecodeText(text) == FlushState(TransformChunk(InitState, text)).out

\* The decoder state after the first i characters of text.
PrefixState(text, i) == StepChars(InitState, SubSeq(text, 1, i))

SetState(st) ==
  /\ row' = st.row
  /\ field' = st.field
  /\ lastChar' = st.lastChar
  /\ escapeMode' = st.escapeMode
  /\ justExitedEscapeMode' = st.justExitedEscapeMode
  /\ out' = st.out

\* The file stream of a reader just constructed: start() has been called and
\* awaits open(path, "r"); size is the number of bytes of the file, reads the
\* reads issued on the handle, closeCalls the calls of handle.close() and
\* misuse whether the handle was used while it was not open.
NoSource ==
  [handle |-> "none", position |-> 0, ready |-> FALSE, state |-> "readable",
   pull |-> "idle", cancel |-> "none", size |-> 0, piped |-> TRUE,
   reads |-> 0, closeCalls |-> 0, closes |-> 0, misuse |-> FALSE]

\* The CSVReader as a stream: its state, whether its pull() awaits
\* reader.read(), the bytes whose rows it has enqueued, whether cancel() was
\* called on it and the reads of the file issued since.
NoReads ==
  [state |-> "readable", pulling |-> FALSE, taken |-> 0, cancelled |-> FALSE,
   readsSince |-> 0]

\* A reader just constructed, and no file written yet.
InitReader ==
  /\ row = <<>>
  /\ field = <<>>
  /\ lastChar = NULL
  /\ escapeMode = FALSE
  /\ justExitedEscapeMode = FALSE
  /\ out = <<>>
  /\ chunks = <<>>
  /\ done = FALSE
  /\ written = <<>>
  /\ file = <<>>
  /\ source = NoSource
  /\ csvReader = NoReads

\* No transformer takes part: its variables keep these values.
NoTransformer ==
  /\ options = <<>>
  /\ firstChunk = TRUE
  /\ batch = <<>>
  /\ concurrent = <<>>
  /\ invs = <<>>
  /\ headerInv = <<>>
  /\ emitted = <<>>
  /\ consumed = 0
  /\ pc = "idle"
  /\ error = <<>>
  /\ normalized = FALSE
  /\ fn = {}

\* No error strategy takes part: no handler was made.
NoStrategy ==
  /\ strategy = <<>>
  /\ iterations = 0
  /\ calls = <<>>

\* A writer whose start() has opened the file, and nothing written yet.
NoWriter ==
  /\ status = [rows |-> 0, done |-> FALSE, start |-> 0, elapsed |-> 0]
  /\ received = <<>>
  /\ handle = "open"
  /\ wstate = "writable"
  /\ now = 0

Init == InitReader /\ NoTransformer /\ NoStrategy /\ NoWriter

\* The transform callback of the TransformStream, called with one chunk.
Transform(chunk) ==
  /\ ~done
  /\ SetState(TransformChunk(State, chunk))
  /\ chunks' = Append(chunks, chunk)
  /\ UNCHANGED <<done, written, file, source, csvReader>>
  /\ UNCHANGED tvars
  /\ UNCHANGED <<svars, wvars>>

\* The flush callback of the TransformStream, called once at end of input.
Flush ==
  /\ ~done
  /\ SetState(FlushState(State))
  /\ done' = TRUE
  /\ UNCHANGED <<chunks, written, file, source, csvReader>>
  /\ UNCHANGED tvars
  /\ UNCHANGED <<svars, wvars>>

\* A reader fed arbitrary text in arbitrary chunks.
ReadAny ==
  /\ Len(chunks) < MaxChunks
  /\ \E chunk \in SeqsUpTo(Alphabet, MaxInput - Len(fed)) : Transform(chunk)

Next == ReadAny \/ Flush

Spec == Init /\ [][Next]_vars

----------------------------------------------------------------------------
(* CSVWriter.arrayToCSVString *)

\* Mutant of NeedsQuotes: a CR alone does not make a field quoted.
NeedsQuotesNoCR(fld) == \E i \in 1..Len(fld) : fld[i] \in {COMMA, QUOTE, LF}

\* /[,"\r\n]/g.test(field), on a regular expression created for this test.
NeedsQuotes(fld) == \E i \in 1..Len(fld) : fld[i] \in {COMMA, QUOTE, CR, LF}

\* Mutant of ReplaceAllQuotes: replace() instead of replaceAll(), only the
\* first double quote is doubled.
RECURSIVE ReplaceFirstQuote(_)
ReplaceFirstQuote(fld) ==
  IF fld = <<>> THEN <<>>
  ELSE IF Head(fld) = QUOTE THEN <<QUOTE, QUOTE>> \o Tail(fld)
  ELSE <<Head(fld)>> \o ReplaceFirstQuote(Tail(fld))

RECURSIVE ReplaceEachQuote(_)
ReplaceEachQuote(fld) ==
  IF fld = <<>> THEN <<>>
  ELSE (IF Head(fld) = QUOTE THEN <<QUOTE, QUOTE>> ELSE <<Head(fld)>>)
       \o ReplaceEachQuote(Tail(fld))

\* field.replaceAll('"', '""')
ReplaceAllQuotes(fld) == ReplaceEachQuote(fld)

\* The loop of arrayToCSVString: acc is the local out, arr the fields left.
RECURSIVE AppendFields(_, _)
AppendFields(acc, arr) ==
  IF arr = <<>> THEN acc
  ELSE AppendFields(
         IF NeedsQuotes(Head(arr))
         THEN acc \o <<QUOTE>> \o ReplaceAllQuotes(Head(arr))
                  \o <<QUOTE, COMMA>>
         ELSE acc \o Head(arr) \o <<COMMA>>,
         Tail(arr))

\* static arrayToCSVString(arr): `${out.slice(0, -1)}\r\n`
arrayToCSVString(arr) ==
  LET o == AppendFields(<<>>, arr)
  IN SubSeq(o, 1, Len(o) - 1) \o <<CR, LF>>

\* The text of the file: the record strings in the order they were written.
FileText == Flatten(file)

\* The number of characters of the fields of the rows rs.
RECURSIVE NumChars(_)
NumChars(rs) ==
  IF rs = <<>> THEN 0
  ELSE Len(Flatten(Head(rs))) + NumChars(Tail(rs))

\* The rows of n fields that hold at most b characters in all.
RECURSIVE RowsOf(_, _)
RowsOf(n, b) ==
  IF n = 0 THEN {<<>>}
  ELSE UNION {{<<fld>> \o rest : rest \in RowsOf(n - 1, b - Len(fld))} :
                fld \in SeqsUpTo(Alphabet, b)}

\* JSON.stringify(x), a chunk that holds a serialized value, and JSON.parse
\* of such a chunk.
Json(x) == [t |-> "json", v |-> <<x>>]

Parse(c) == c.v[1]

\* A chunk that is a string made otherwise: v is its text.
Raw(text) == [t |-> "raw", v |-> text]

\* The characters JSON.parse skips around a value: of the alphabet, CR and LF.
JSONSpace == {CR, LF}

RECURSIVE TrimStart(_)
TrimStart(text) ==
  IF text # <<>> /\ Head(text) \in JSONSpace THEN TrimStart(Tail(text))
  ELSE text

RECURSIVE TrimEnd(_)
TrimEnd(text) ==
  IF text # <<>> /\ Last(text) \in JSONSpace
  THEN TrimEnd(SubSeq(text, 1, Len(text) - 1))
  ELSE text

\* JSON.parse(text) does not throw: of the texts over the alphabet, those
\* that are one string literal, a pair of double quotes around characters
\* that are neither a double quote nor a control character.
IsJSONText(text) ==
  LET lit == TrimEnd(TrimStart(text))
  IN /\ Len(lit) >= 2
     /\ Head(lit) = QUOTE
     /\ Last(lit) = QUOTE
     /\ \A i \in 2..(Len(lit) - 1) : lit[i] \notin {QUOTE, CR, LF}

\* The string JSON.parse(text) returns for such a text.
JSONString(text) ==
  LET lit == TrimEnd(TrimStart(text))
  IN SubSeq(lit, 2, Len(lit) - 1)

\* Whether the try block of write(chunk) completes, and if so what the loop
\* of arrayToCSVString takes from parsed, of length parsed.length: the
\* fields of a row, or the characters of a string.
Parses(chunk) == chunk.t = "json" \/ IsJSONText(chunk.v)

Iterated(chunk) ==
  IF chunk.t = "json" THEN Parse(chunk)
  ELSE [i \in 1..Len(JSONString(chunk.v)) |-> <<JSONString(chunk.v)[i]>>]

\* What write(chunk) adds to status.rows.
RowsIn(chunk) == IF Parses(chunk) THEN Len(Iterated(chunk)) ELSE 1

\* The data write(chunk) passes to handle.write.
Data(chunk) ==
  IF Parses(chunk) THEN arrayToCSVString(Iterated(chunk)) ELSE chunk.v

\* The write callback of the CSVWriter's sink, called with one chunk.
write(chunk) ==
  /\ written' = IF Parses(chunk) THEN Append(written, Iterated(chunk))
                ELSE written
  /\ file' = Append(file, Data(chunk))
  /\ status' = [status EXCEPT !.rows = @ + RowsIn(chunk)]
  /\ received' = Append(received, chunk)
  /\ UNCHANGED <<handle, wstate, now>>

\* A row is written to the file before any reader opens it.
WriteRow ==
  /\ chunks = <<>>
  /\ ~done
  /\ handle = "open"
  /\ wstate = "writable"
  /\ \E n \in 1..(MaxCells - Len(Flatten(written))) :
       \E arr \in RowsOf(n, MaxChars - NumChars(written)) :
         write(Json(arr))
  /\ UNCHANGED <<row, field, lastChar, escapeMode, justExitedEscapeMode,
                 out, chunks, done, source, csvReader>>
  /\ UNCHANGED tvars
  /\ UNCHANGED svars

\* The read stream delivers the next chunk of the file to the reader.
ReadFile ==
  /\ Len(fed) < Len(FileText)
  /\ Transform(SubSeq(FileText, Len(fed) + 1,
                      Min(Len(fed) + ChunkSize, Len(FileText))))

\* The read stream reaches the end of the file.
EndFile ==
  /\ Len(fed) = Len(FileText)
  /\ Flush

NextCodec == WriteRow \/ ReadFile \/ EndFile

SpecCodec == Init /\ [][NextCodec]_vars

----------------------------------------------------------------------------
(* Positions of a text, as the decoder sees them *)

\* The positions of the line feeds of text that the decoder consumes while
\* not in escape mode (the row-terminating line feeds).
RowLFs(text) ==
  {i \in 1..Len(text) :
     text[i] = LF /\ ~PrefixState(text, i - 1).escapeMode}

\* The last row-terminating line feed of text, 0 if there is none.
LastRowLF(text) ==
  IF RowLFs(text) = {} THEN 0
  ELSE CHOOSE i \in RowLFs(text) : \A j \in RowLFs(text) : j <= i

\* text ends in a field that no line feed follows: after the last
\* row-terminating line feed there is a character other than CR and U+FEFF,
\* and no quoted field is left open at the end of text.
EndsInField(text) ==
  /\ ~PrefixState(text, Len(text)).escapeMode
  /\ \E i \in (LastRowLF(text) + 1)..Len(text) : text[i] \notin {CR, BOM}

\* text with char inserted after its first i characters.
InsertAt(text, i, char) ==
  SubSeq(text, 1, i) \o <<char>> \o SubSeq(text, i + 1, Len(text))

\* The positions 0..Len(text) that are outside a quoted field: the decoder
\* is not in escape mode there, nor between the two quotes of an escaped pair.
OutsideQuoted(text) ==
  {i \in 0..Len(text) :
     /\ ~PrefixState(text, i).escapeMode
     /\ ~(/\ PrefixState(text, i).justExitedEscapeMode
          /\ i < Len(text)
          /\ text[i + 1] = QUOTE)}

\* text with a CR inserted before each of the line feeds at the positions S.
RECURSIVE WithCRs(_, _, _)
WithCRs(text, S, i) ==
  IF i > Len(text) THEN <<>>
  ELSE (IF i \in S THEN <<CR, text[i]>> ELSE <<text[i]>>)
       \o WithCRs(text, S, i + 1)

----------------------------------------------------------------------------
(* Claims about the decoder, checked under Spec *)

\* C1: Chunk-boundary invariance: whatever the chunks the text was delivered
\* in, after the flush the reader has emitted exactly the rows it emits for
\* the same text delivered as one single chunk.
C1_ChunkInvariance == done => out = DecodeText(fed)

\* C1 witness: a flushed reader whose first chunk ended between the two
\* quotes of an escaped quote pair.
C1_Witness ==
  /\ done
  /\ Len(chunks) >= 2
  /\ chunks[1] # <<>>
  /\ chunks[2] # <<>>
  /\ Last(chunks[1]) = QUOTE
  /\ Head(chunks[2]) = QUOTE
  /\ StepChars(InitState, chunks[1]).justExitedEscapeMode
  /\ out = << << <<QUOTE>> >> >>

\* C4: The decoder always produces output: after the flush at least one row
\* has been emitted, whatever the input was.
C4_AlwaysOutput == done => Len(out) >= 1

\* C5: Empty input: a reader that received no character before the flush has
\* emitted exactly one row, made of exactly one empty field.
C5_EmptyInput == (done /\ fed = <<>>) => out = << << <<>> >> >>

\* C5 witness: a flushed reader that received no character.
C5_Witness == done /\ fed = <<>> /\ Len(out) = 1

\* C6: No trailing terminator: for an input that ends in a field not followed
\* by a line feed, the number of rows emitted by the end of the flush is one
\* more than the number of row-terminating line feeds.
C6_FinalRow ==
  (done /\ EndsInField(fed)) => Len(out) = Cardinality(RowLFs(fed)) + 1

\* C7: Byte-order mark is ignored: inserting U+FEFF at any position of the
\* input that is outside a quoted field does not change the emitted rows.
C7_BOMIgnored ==
  done => \A i \in OutsideQuoted(fed) :
            DecodeText(InsertAt(fed, i, BOM)) = out

\* C8: CRLF/LF agnosticism: replacing any subset of the row-terminating line
\* feeds of the input by CR LF does not change the emitted rows.
C8_CRLFAgnostic ==
  done => \A S \in SUBSET RowLFs(fed) :
            DecodeText(WithCRs(fed, S, 1)) = out

\* C8 witness: a flushed reader whose input had two row-terminating line
\* feeds, the first one without a CR before it.
C8_Witness ==
  /\ done
  /\ Cardinality(RowLFs(fed)) = 2
  /\ fed[1] = "a"
  /\ fed[2] = LF
  /\ Len(out) >= 2

\* A step of the reader that consumes exactly one character.
OneCharStep ==
  /\ ~done'
  /\ Len(chunks') = Len(chunks) + 1
  /\ Len(Last(chunks')) = 1

\* The flush step of the reader.
FlushStep == ~done /\ done'

\* What C9 says of the rows emitted while characters are consumed, and of
\* the order of emission at every step.
C9_Emission ==
  /\ IsPrefix(out, out')
  /\ (OneCharStep \/ FlushStep) =>
       /\ Len(out') <= Len(out) + 1
       /\ out' # out => out' = Append(out, Append(row, field))
  /\ OneCharStep =>
       /\ out' # out <=> (Last(chunks')[1] = LF /\ ~escapeMode)
       /\ out' # out => (row' = <<>> /\ field' = <<>>)

\* C9 as amended: a row is emitted exactly when a line feed is consumed
\* outside escape mode, and possibly once more at the flush; rows are
\* appended in source order; after each emission caused by a line feed the
\* row buffer and the field buffer are empty.
C9_RowOrdering == [][C9_Emission]_vars

\* C9 as stated: the buffers are empty after every emission, the one of the
\* flush included.
C9_AsStated ==
  [][/\ C9_Emission
     /\ ((OneCharStep \/ FlushStep) /\ out' # out)
          => (row' = <<>> /\ field' = <<>>)]_vars

\* C9 witness: the reader has just emitted its second row on a line feed,
\* after having consumed a line feed inside a quoted field.
C9_Witness ==
  /\ ~done
  /\ Len(out) = 2
  /\ lastChar = LF
  /\ row = <<>>
  /\ field = <<>>

----------------------------------------------------------------------------
(* Claims about the encoder and the round trip, checked under SpecCodec *)

\* Every character of every field of the rows rs is in the set S.
CharsIn(rs, S) ==
  \A i \in 1..Len(rs) : \A j \in 1..Len(rs[i]) : Range(rs[i][j]) \subseteq S

\* C2: Round trip with escaping: when one or more rows whose fields are made
\* of ordinary characters, commas, double quotes, CR and LF were written,
\* reading the file back emits exactly the rows written, in order and field
\* by field.
C2_RoundTripEscaping ==
  (done /\ written # <<>> /\ CharsIn(written, {"a", COMMA, QUOTE, CR, LF}))
    => out = written

\* C2 witness: two rows were written and read back, the first of two fields
\* one of which is a double quote, the second of one field that is a line
\* feed.
C2_Witness ==
  /\ done
  /\ Len(written) = 2
  /\ written[1] = << <<QUOTE>>, <<>> >>
  /\ written[2] = << <<LF>> >>
  /\ file = << <<QUOTE, QUOTE, QUOTE, QUOTE, COMMA, CR, LF>>,
               <<QUOTE, LF, QUOTE, CR, LF>> >>
  /\ Len(out) = 2

\* C3: Round trip without escaping: when one row whose characters are all
\* outside {comma, double quote, CR, LF} was written (U+FEFF allowed),
\* reading the file back emits exactly that row.
C3_RoundTripPlain ==
  (done /\ Len(written) = 1 /\ CharsIn(written, {"a", BOM}))
    => out = written

\* The field as the encoder contract puts it in the record.
C10_Escaped(fld) ==
  IF Range(fld) \cap {COMMA, QUOTE, CR, LF} # {}
  THEN <<QUOTE>>
       \o Flatten([i \in 1..Len(fld) |->
                     IF fld[i] = QUOTE THEN <<QUOTE, QUOTE>> ELSE <<fld[i]>>])
       \o <<QUOTE>>
  ELSE fld

\* The fields flds, one or more, joined by commas.
RECURSIVE C10_Joined(_)
C10_Joined(flds) ==
  IF Len(flds) = 1 THEN C10_Escaped(flds[1])
  ELSE C10_Escaped(flds[1]) \o <<COMMA>> \o C10_Joined(Tail(flds))

\* The number of characters of the fields flds as put in the record.
RECURSIVE C10_EscapedLen(_)
C10_EscapedLen(flds) ==
  IF flds = <<>> THEN 0
  ELSE Len(C10_Escaped(Head(flds))) + C10_EscapedLen(Tail(flds))

\* C10: Encoder contract: the string returned for a row of n >= 1 fields is
\* its fields joined by exactly n-1 commas and followed by CR LF, a field
\* being wrapped in double quotes with its double quotes doubled if and only
\* if it holds a comma, double quote, CR or LF; equal rows give equal strings.
C10_EncoderContract ==
  /\ Len(file) = Len(written)
  /\ \A i \in 1..Len(written) :
       /\ file[i] = C10_Joined(written[i]) \o <<CR, LF>>
       /\ Len(file[i]) =
            C10_EscapedLen(written[i]) + (Len(written[i]) - 1) + 2
       /\ \A j \in 1..Len(written) :
            written[i] = written[j] => file[i] = file[j]

\* C10 witness: a row of two fields was encoded, the first holding only a
\* CR (quoted), the second plain.
C10_Witness ==
  /\ Len(written) >= 1
  /\ written[1] = << <<CR>>, <<"a">> >>
  /\ file[1] = <<QUOTE, CR, QUOTE, COMMA, "a", CR, LF>>

----------------------------------------------------------------------------
(* CSVTransformer: values *)

\* A JavaScript value is a record [t, v]: t is the kind of value and v what
\* it is made of.  JSON.stringify and JSON.parse are the constructor Json and
\* its inverse Parse, so a serialized row is a string and never an array.
Null == [t |-> "null", v |-> <<>>]

Str(s) == [t |-> "string", v |-> <<s>>]

Obj(o) == [t |-> "object", v |-> <<o>>]

Arr(xs) == [t |-> "array", v |-> xs]

\* The value f returned when called with a, and the error f threw.
App(f, a) == [t |-> "result", v |-> <<f, a>>]

\* The string f returned when called with a: text that is already CSV.
Text(f, a) == [t |-> "text", v |-> <<f, a>>]

Err(f, a) == [t |-> "error", v |-> <<f, a>>]

\* What f threw when called with a, when that is no Error (a string, say).
Reason(f, a) == [t |-> "reason", v |-> <<f, a>>]

IsNullish(x) == x.t = "null"

IsString(x) == x.t \in {"string", "json", "text"}

IsArray(x) == x.t = "array"

\* The i-th row the stage is fed: one cell, a string or (normalized) an object.
InputRow(i) == Arr(<<IF normalized THEN Obj(i) ELSE Str(i)>>)

InputChunk(i) == Json(InputRow(i))

\* The array given as handleHeaders; its cell is no cell of an input row.
HeaderArray == Arr(<<Str(0)>>)

----------------------------------------------------------------------------
(* CSVTransformer: options *)

\* An option is <<>> when it is not given and <<value>> when it is.
OrElse(x, d) == IF x = <<>> THEN d ELSE x[1]

\* The options object after the constructor has filled in the defaults.
Defaulted(o) ==
  [handleHeaders |-> OrElse(o.handleHeaders, "false"),
   rawInput      |-> OrElse(o.rawInput, FALSE),
   rawOutput     |-> OrElse(o.rawOutput, FALSE),
   onError       |-> OrElse(o.onError, "null"),
   maxBatchSize  |-> OrElse(o.maxBatchSize, 1),
   maxConcurrent |-> OrElse(o.maxConcurrent, 1)]

Opt == Defaulted(options)

Given(S) == {<<>>} \cup {<<x>> : x \in S}

OptionsSet ==
  [handleHeaders : Given({"false", "true", "array", "function"}),
   rawInput      : {<<>>},
   rawOutput     : Given({TRUE}),
   onError       : Given({"function"}),
   maxBatchSize  : Given(1..MaxBatch),
   maxConcurrent : {<<c>> : c \in 1..MaxConc}]

----------------------------------------------------------------------------
(* CSVTransformer: what the user's functions may do *)

\* A call of a user function f with argument a returns one row, an array of
\* two rows or null, or it throws an Error (or returns a promise that rejects
\* with one). fn tells what else the functions given to the stage do: "text"
\* when they may return a string, "reason" when they may throw a value that
\* is no Error, "filter" when they may return an array of no rows, "identity"
\* when they return their argument and do nothing else.
OneRow(f, a) == Arr(<<App(f, a)>>)

TwoRows(f, a) == Arr(<<Arr(<<App(f, a)>>), Arr(<<App(f, a), App(f, a)>>)>>)

\* The array #transform collects the rows in, as a value: what it holds is
\* what #batch holds when it is looked at.
TheBatch == [t |-> "batch", v |-> <<>>]

\* What a function that returns its argument returns when called with a: the
\* row, or this.#batch itself when it is called with the batch.
Same(a) ==
  IF Opt.maxBatchSize > 1 /\ a.v # <<>> /\ IsArray(a.v[1]) THEN TheBatch
  ELSE a

Returns(f, a) ==
  IF "identity" \in fn THEN {Same(a)}
  ELSE {OneRow(f, a), TwoRows(f, a), Null}
       \cup (IF "text" \in fn THEN {Text(f, a)} ELSE {})
       \cup (IF "filter" \in fn THEN {Arr(<<>>)} ELSE {})

\* What f may throw when called with a: an Error or some other value.
Throws(f, a) ==
  IF "identity" \in fn THEN {}
  ELSE {Err(f, a)} \cup (IF "reason" \in fn THEN {Reason(f, a)} ELSE {})

\* A settled promise: its status, its value or reason, the functions called
\* on the way and the arguments onError was called with, if it was.
Fulfilled(x, called, errArgs) ==
  [status |-> "fulfilled", value |-> x, called |-> called,
   errArgs |-> errArgs]

Rejected(e, called, errArgs) ==
  [status |-> "rejected", value |-> e, called |-> called,
   errArgs |-> errArgs]

\* Rejecting with the error of f when onError fails.
RecoveredKeepsOriginal(f, s, e) ==
  {Fulfilled(x, <<f, "onError">>, <<s, e, f>>) :
     x \in {OneRow("onError", s), Null}}
  \cup {Rejected(e, <<f, "onError">>, <<s, e, f>>)}

\* The outcomes of onError(row, e, f), row holding s when it is called.
Recovered(f, s, e) ==
  {Fulfilled(x, <<f, "onError">>, <<s, e, f>>) :
     x \in {OneRow("onError", s), Null}}
  \cup {Rejected(Err("onError", s), <<f, "onError">>, <<s, e, f>>)}

\* The ways the promise of a call of f guarded by onError can settle. The
\* call is made with row holding a; S is what row may hold when the catch
\* clause runs.
Guarded(f, a, S, onError) ==
  {Fulfilled(x, <<f>>, <<>>) : x \in Returns(f, a)}
  \cup (IF onError = "null"
        THEN {Rejected(e, <<f>>, <<>>) : e \in Throws(f, a)}
        ELSE UNION {Recovered(f, x[1], x[2]) : x \in S \X Throws(f, a)})

\* #wrappedFn(row)
wrappedFn(a, S) == Guarded("fn", a, S, Opt.onError)

\* Sending the first row through the transformation function whatever
\* handleHeaders is.
wrappedHeaderFnViaFn(a) == wrappedFn(a, {a})

\* #wrappedHeaderFn(row)
wrappedHeaderFn(a) ==
  CASE Opt.handleHeaders = "true"  -> wrappedFn(a, {a})
    [] Opt.handleHeaders = "false" -> {Fulfilled(a, <<>>, <<>>)}
    [] Opt.handleHeaders = "array" -> {Fulfilled(HeaderArray, <<>>, <<>>)}
    [] OTHER -> Guarded("handleHeaders", a, {a}, Opt.onError)

\* Serializing null like any other value.
enqueueRowKeepsNull(x) ==
  IF Opt.rawOutput \/ IsString(x) THEN <<x>>
  ELSE IF IsArray(x) /\ Len(x.v) > 0 /\ IsArray(x.v[1])
       THEN [i \in 1..Len(x.v) |-> Json(x.v[i])]
  ELSE <<Json(x)>>

\* Serializing an array of rows as one chunk.
enqueueRowWhole(x) ==
  IF IsNullish(x) THEN <<>>
  ELSE IF Opt.rawOutput \/ IsString(x) THEN <<x>>
  ELSE <<Json(x)>>

\* Serializing every value that is not null, strings and raw output too.
enqueueRowNeverRaw(x) ==
  IF IsNullish(x) THEN <<>>
  ELSE IF IsArray(x) /\ Len(x.v) > 0 /\ IsArray(x.v[1])
       THEN [i \in 1..Len(x.v) |-> Json(x.v[i])]
  ELSE <<Json(x)>>

\* #enqueueRow(row, controller): the chunks it enqueues.
enqueueRow(x) ==
  IF IsNullish(x) THEN <<>>
  ELSE IF Opt.rawOutput \/ IsString(x) THEN <<x>>
  ELSE IF IsArray(x) /\ Len(x.v) > 0 /\ IsArray(x.v[1])
       THEN [i \in 1..Len(x.v) |-> Json(x.v[i])]
  ELSE <<Json(x)>>

\* The chunks with the invocation they come from (0: the header).
From(cs, k) == [i \in 1..Len(cs) |-> [chunk |-> cs[i], src |-> k]]

\* An invocation just started: the promise returned by #wrappedFn.
Pending(a) ==
  [arg |-> a, status |-> "pending", value |-> Null, called |-> <<>>,
   errArgs |-> <<>>, overtaken |-> FALSE]

IsPending(k) == invs[k].status = "pending"

Reverse(c) == [j \in 1..Len(c) |-> c[Len(c) + 1 - j]]

\* The promises of the group taken last pushed first.
GroupOrderReversed(c) == Reverse(c)

\* The invocations of the group, in the order Promise.allSettled reports them.
GroupOrder(c) == c

\* The position in the group of its last rejected promise, 0 if none.
LastRejected(c) ==
  IF \E j \in 1..Len(c) : invs[c[j]].status = "rejected"
  THEN CHOOSE j \in 1..Len(c) :
         /\ invs[c[j]].status = "rejected"
         /\ \A h \in (j + 1)..Len(c) : invs[c[h]].status # "rejected"
  ELSE 0

\* The position in the group of its first rejected promise, 0 if none.
FirstRejected(c) ==
  IF \E j \in 1..Len(c) : invs[c[j]].status = "rejected"
  THEN CHOOSE j \in 1..Len(c) :
         /\ invs[c[j]].status = "rejected"
         /\ \A h \in 1..(j - 1) : invs[c[h]].status # "rejected"
  ELSE 0

\* What #enqueueRow finds in the value x of a promise: a value that is
\* this.#batch holds what #batch holds now.
Deref(x) == IF x.t = "batch" THEN Arr(batch) ELSE x

\* The chunks #enqueueConcurrent enqueues for the first n promises of c.
RECURSIVE Drained(_, _)
Drained(c, n) ==
  IF n = 0 THEN <<>>
  ELSE Drained(c, n - 1) \o From(enqueueRow(Deref(invs[c[n]].value)),
                                 c[n])

\* The calls settled so far in another way than by the function called
\* returning one row, and whether r may be the next outcome of a call.
Plain(r) ==
  /\ r.status = "fulfilled"
  /\ Len(r.called) <= 1
  /\ r.value.t = "array"
  /\ r.value.v # <<>>
  /\ ~IsArray(r.value.v[1])

Others ==
  Cardinality({k \in 1..Len(invs) : ~IsPending(k) /\ ~Plain(invs[k])})
  + Cardinality({k \in 1..Len(headerInv) :
                   headerInv[k].status # "pending" /\ ~Plain(headerInv[k])})

Allowed(r) == Plain(r) \/ "identity" \in fn \/ Others < MaxOther

\* The Error #enqueueConcurrent throws for a rejection reason.
AsError(reason) ==
  IF reason.t = "error" THEN reason ELSE Err("Error", reason)

----------------------------------------------------------------------------
(* CSVTransformer: the stage *)

\* Rows of objects are fed to stages constructed with each handleHeaders and
\* nothing else.
PlainOptions(o) ==
  /\ o.onError = <<>>
  /\ o.maxBatchSize = <<>>
  /\ o.maxConcurrent = <<1>>

InitTransformer ==
  /\ InitReader
  /\ NoStrategy
  /\ NoWriter
  /\ options \in OptionsSet
  /\ normalized \in BOOLEAN
  /\ options.rawOutput = <<>>
  /\ fn = {}
  /\ normalized => PlainOptions(options)
  /\ firstChunk = TRUE
  /\ batch = <<>>
  /\ concurrent = <<>>
  /\ invs = <<>>
  /\ headerInv = <<>>
  /\ emitted = <<>>
  /\ consumed = 0
  /\ pc = "idle"
  /\ error = <<>>

\* Draining only once the group holds one promise more.
GroupFullLate(n) == n = Opt.maxConcurrent + 1

\* When #transform drains the group.
GroupFull(n) == n = Opt.maxConcurrent

\* Whether #transform collects the rows into batches.
Batching == Opt.maxBatchSize > 1

\* Handing the batch on one row early.
BatchFullEarly(n) == n = Opt.maxBatchSize - 1

\* When #transform hands the batch to an invocation.
BatchFull(n) == n = Opt.maxBatchSize

\* this.#concurrent.push(this.#wrappedFn(a)), on the pair <<invs, concurrent>>.
Submit(a) ==
  /\ invs' = Append(invs, Pending(a))
  /\ concurrent' = Append(concurrent, Len(invs) + 1)

\* Taking every row for a data row.
NeverHeader == FALSE

\* Whether #transform takes the chunk for the header.
IsHeader == firstChunk

\* #transform(chunk, controller) up to its first await, or to its return.
TransformerTransform ==
  /\ pc = "idle"
  /\ consumed < MaxRowsIn
  /\ consumed' = consumed + 1
  /\ LET chunk == InputChunk(consumed + 1)
         r     == IF Opt.rawInput THEN chunk ELSE Parse(chunk)
     IN IF IsHeader
        THEN /\ firstChunk' = FALSE
             /\ headerInv' = <<Pending(r)>>
             /\ pc' = "header"
             /\ UNCHANGED <<batch, concurrent, invs>>
        ELSE /\ IF Batching
                THEN IF BatchFull(Len(batch) + 1)
                     THEN /\ Submit(Arr(Append(batch, r)))
                          /\ batch' = <<>>
                     ELSE /\ batch' = Append(batch, r)
                          /\ UNCHANGED <<invs, concurrent>>
                ELSE /\ Submit(r)
                     /\ UNCHANGED batch
             /\ pc' = IF GroupFull(Len(concurrent')) THEN "group" ELSE "idle"
             /\ UNCHANGED <<firstChunk, headerInv>>
  /\ UNCHANGED <<fn, options, normalized, emitted, error>>
  /\ UNCHANGED rvars
  /\ UNCHANGED <<svars, wvars>>

\* The promise of #wrappedHeaderFn settles and #transform resumes: it enqueues
\* the header's output, or the stream is errored with what was thrown.
HeaderSettled ==
  /\ pc = "header"
  /\ \E r \in wrappedHeaderFn(headerInv[1].arg) :
       /\ Allowed(r)
       /\ headerInv' = <<[headerInv[1] EXCEPT !.status = r.status,
                                              !.value = r.value,
                                              !.called = r.called,
                                              !.errArgs = r.errArgs]>>
       /\ IF r.status = "fulfilled"
          THEN /\ emitted' = emitted \o From(enqueueRow(r.value), 0)
               /\ pc' = "idle"
               /\ UNCHANGED error
          ELSE /\ pc' = "errored"
               /\ error' = <<r.value>>
               /\ UNCHANGED emitted
  /\ UNCHANGED <<fn, options, normalized, firstChunk, batch, concurrent, invs,
                 consumed>>
  /\ UNCHANGED rvars
  /\ UNCHANGED <<svars, wvars>>

\* What the array handed to the k-th call of #wrappedFn may hold when the
\* call's catch clause runs. A batch is this.#batch itself: it holds the rows
\* it was handed over with if the function threw during the call, and what
\* #transform has left in it since if the function's promise rejected.
Held(k) ==
  IF Batching THEN {invs[k].arg, Arr(batch)} ELSE {invs[k].arg}

\* The promise of the k-th call of #wrappedFn settles.
Settle(k) ==
  /\ IsPending(k)
  /\ \E r \in wrappedFn(invs[k].arg, Held(k)) :
       /\ Allowed(r)
       /\ invs' = [invs EXCEPT ![k] =
                    [arg |-> invs[k].arg, status |-> r.status,
                     value |-> r.value, called |-> r.called,
                     errArgs |-> r.errArgs,
                     overtaken |->
                       \E j \in (k + 1)..Len(invs) : ~IsPending(j)]]
  /\ UNCHANGED <<fn, options, normalized, firstChunk, batch, concurrent,
                 headerInv, emitted, consumed, pc, error>>
  /\ UNCHANGED rvars
  /\ UNCHANGED <<svars, wvars>>

SettleAny == \E k \in 1..Len(invs) : Settle(k)

\* Resuming as soon as one promise of the group has settled.
SomeSettled(c) == \E j \in 1..Len(c) : ~IsPending(c[j])

\* When Promise.allSettled(this.#concurrent) resolves.
AllSettled(c) == \A j \in 1..Len(c) : ~IsPending(c[j])

\* #enqueueConcurrent(controller) after its await, and the return of the
\* #transform or #flush that awaited it.
enqueueConcurrent ==
  /\ pc \in {"group", "flush"}
  /\ AllSettled(concurrent)
  /\ concurrent' = <<>>
  /\ LET c == GroupOrder(concurrent)
         j == FirstRejected(c)
     IN IF j = 0
        THEN /\ emitted' = emitted \o Drained(c, Len(c))
             /\ pc' = IF pc = "group" THEN "idle" ELSE "closed"
             /\ UNCHANGED error
        ELSE /\ emitted' = emitted \o Drained(c, j - 1)
             /\ pc' = "errored"
             /\ error' = <<AsError(invs[c[j]].value)>>
  /\ UNCHANGED <<fn, options, normalized, firstChunk, batch, invs, headerInv,
                 consumed>>
  /\ UNCHANGED rvars
  /\ UNCHANGED <<svars, wvars>>

\* A flush that leaves a partial batch where it is.
TransformerFlushDropsBatch ==
  /\ pc = "idle"
  /\ UNCHANGED <<invs, concurrent>>
  /\ pc' = IF Len(concurrent) > 0 THEN "flush" ELSE "closed"
  /\ UNCHANGED <<fn, options, normalized, firstChunk, batch, headerInv, emitted,
                 consumed, error>>
  /\ UNCHANGED rvars
  /\ UNCHANGED <<svars, wvars>>

\* #flush(controller) up to its await, or to its return.
TransformerFlush ==
  /\ pc = "idle"
  /\ IF Len(batch) > 0
     THEN Submit(Arr(batch))
     ELSE UNCHANGED <<invs, concurrent>>
  /\ pc' = IF Len(concurrent') > 0 THEN "flush" ELSE "closed"
  /\ UNCHANGED <<fn, options, normalized, firstChunk, batch, headerInv, emitted,
                 consumed, error>>
  /\ UNCHANGED rvars
  /\ UNCHANGED <<svars, wvars>>

NextTransformer ==
  \/ TransformerTransform
  \/ HeaderSettled
  \/ SettleAny
  \/ enqueueConcurrent
  \/ TransformerFlush

SpecTransformer == InitTransformer /\ [][NextTransformer]_vars

\* Stages without onError, given functions that may also return strings and
\* throw values that are no Errors, constructed with or without rawOutput;
\* rawOutput comes with batching and concurrency left at their defaults.
InitOutcomes ==
  /\ InitReader
  /\ NoStrategy
  /\ NoWriter
  /\ options \in OptionsSet
  /\ options.onError = <<>>
  /\ options.rawOutput # <<>> => PlainOptions(options)
  /\ normalized = FALSE
  /\ fn = {"text", "reason"}
  /\ firstChunk = TRUE
  /\ batch = <<>>
  /\ concurrent = <<>>
  /\ invs = <<>>
  /\ headerInv = <<>>
  /\ emitted = <<>>
  /\ consumed = 0
  /\ pc = "idle"
  /\ error = <<>>

SpecOutcomes == InitOutcomes /\ [][NextTransformer]_vars

\* Stages that batch, without onError and with the first row passed through
\* as it is or through the function, given a function that returns its
\* argument.
InitIdentity ==
  /\ InitReader
  /\ NoStrategy
  /\ NoWriter
  /\ options \in OptionsSet
  /\ options.onError = <<>>
  /\ options.rawOutput = <<>>
  /\ options.handleHeaders \in {<<>>, <<"false">>, <<"true">>}
  /\ options.maxBatchSize # <<>>
  /\ options.maxBatchSize[1] > 1
  /\ normalized = FALSE
  /\ fn = {"identity"}
  /\ firstChunk = TRUE
  /\ batch = <<>>
  /\ concurrent = <<>>
  /\ invs = <<>>
  /\ headerInv = <<>>
  /\ emitted = <<>>
  /\ consumed = 0
  /\ pc = "idle"
  /\ error = <<>>

SpecIdentity == InitIdentity /\ [][NextTransformer]_vars

\* Stages without onError, given functions that may return an array of no
\* rows.
InitFilter ==
  /\ InitReader
  /\ NoStrategy
  /\ NoWriter
  /\ options \in OptionsSet
  /\ options.onError = <<>>
  /\ options.rawOutput = <<>>
  /\ normalized = FALSE
  /\ fn = {"filter"}
  /\ firstChunk = TRUE
  /\ batch = <<>>
  /\ concurrent = <<>>
  /\ invs = <<>>
  /\ headerInv = <<>>
  /\ emitted = <<>>
  /\ consumed = 0
  /\ pc = "idle"
  /\ error = <<>>

SpecFilter == InitFilter /\ [][NextTransformer]_vars

----------------------------------------------------------------------------
(* Claims about the transformation stage, checked under SpecTransformer *)

\* The number of invocations whose results #enqueueConcurrent has handed to
\* #enqueueRow: all those of the drained groups, up to the first rejected one.
Handed ==
  LET rejected == {k \in 1..Len(invs) : invs[k].status = "rejected"}
  IN IF pc = "errored" /\ rejected # {}
     THEN (CHOOSE k \in rejected : \A h \in rejected : k <= h) - 1
     ELSE Len(invs) - Len(concurrent)

\* The chunks of the output of the header.
HeaderChunks ==
  IF headerInv # <<>> /\ headerInv[1].status = "fulfilled"
  THEN enqueueRow(headerInv[1].value)
  ELSE <<>>

\* The chunks of the outputs of invocations 1 .. n, in that order.
RECURSIVE InSubmissionOrder(_)
InSubmissionOrder(n) ==
  IF n = 0 THEN <<>>
  ELSE InSubmissionOrder(n - 1) \o enqueueRow(invs[n].value)

Chunks(es) == [i \in 1..Len(es) |-> es[i].chunk]

\* C11: Output order: whatever the order in which the invocations in flight
\* settle, the chunks emitted are the output of the header followed by the
\* outputs of invocations 1, 2, 3, ... in the order they were submitted, and
\* each chunk comes from an invocation no earlier than the one before it.
C11_OutputOrder ==
  /\ Chunks(emitted) = HeaderChunks \o InSubmissionOrder(Handed)
  /\ \A i \in 1..(Len(emitted) - 1) : emitted[i].src <= emitted[i + 1].src

\* C11 witness: the stage closed after an invocation that settled later than
\* one submitted after it, and the outputs of both were emitted.
C11_Witness ==
  /\ pc = "closed"
  /\ \E i \in 1..Len(emitted) : \E j \in (i + 1)..Len(emitted) :
       /\ emitted[i].src >= 1
       /\ invs[emitted[i].src].overtaken
       /\ emitted[j].src > emitted[i].src

\* The invocations of a user function started and not yet settled: those of
\* #wrappedFn, and the one made for the header when handleHeaders asks for one.
InFlight ==
  Cardinality({k \in 1..Len(invs) : IsPending(k)})
  + (IF /\ pc = "header"
        /\ Opt.handleHeaders \in {"true", "function"}
     THEN 1 ELSE 0)

\* C12: Concurrency bound: at most maxConcurrent invocations are started and
\* not yet settled, also while #flush waits after submitting the last partial
\* batch; while the header row is processed no other invocation is in flight.
C12_ConcurrencyBound ==
  /\ InFlight <= Opt.maxConcurrent
  /\ pc = "header" => \A k \in 1..Len(invs) : ~IsPending(k)

\* C12 witness: #flush has submitted a partial batch as the last of two
\* invocations, and both are in flight.
C12_Witness ==
  /\ pc = "flush"
  /\ Opt.maxConcurrent = 2
  /\ InFlight = 2
  /\ Batching
  /\ Len(invs[Len(invs)].arg.v) < Opt.maxBatchSize

\* The group is full and one of its invocations has not settled.
Blocked ==
  /\ pc = "group"
  /\ \E j \in 1..Len(concurrent) : IsPending(concurrent[j])

C13_Barrier ==
  Blocked => /\ consumed' = consumed
             /\ emitted' = emitted
             /\ pc' = pc
             /\ concurrent' = concurrent

\* C13: Group barrier: from the moment the group holds maxConcurrent
\* invocations and for as long as one of them has not settled, no step of the
\* stage receives a row or emits a chunk, and the stage keeps waiting for the
\* same group; so while an invocation of the group never settles no later row
\* is processed and no result of its settled siblings is emitted.
C13_GroupBarrier == [][C13_Barrier]_vars

\* C13 witness: a full group of two where one invocation is fulfilled with a
\* row to emit, the other has not settled, and nothing of the group is emitted.
C13_Witness ==
  /\ Blocked
  /\ Len(concurrent) = 2
  /\ Len(concurrent) = Opt.maxConcurrent
  /\ \E j \in 1..Len(concurrent) :
       /\ invs[concurrent[j]].status = "fulfilled"
       /\ enqueueRow(invs[concurrent[j]].value) # <<>>
  /\ \A i \in 1..Len(emitted) : emitted[i].src \notin Range(concurrent)
  /\ consumed < MaxRowsIn

\* The data rows received: every row but the first.
DataRows == IF consumed = 0 THEN 0 ELSE consumed - 1

CeilDiv(m, n) == (m + n - 1) \div n

\* Data rows (i-1)*N+1 .. min(i*N, M) as one two-dimensional array; data row
\* j is the row received in position j + 1.
BatchOf(i, N, M) ==
  Arr([j \in 1..(Min(i * N, M) - (i - 1) * N) |-> InputRow((i - 1) * N + j + 1)])

\* The calls of the transformation function made so far: one by each call of
\* #wrappedFn, and one for the header when handleHeaders is true.
HeaderCalls ==
  IF headerInv # <<>> /\ Opt.handleHeaders = "true" THEN 1 ELSE 0

FnCalls == Len(invs) + HeaderCalls

\* Whether #flush has been called.
Flushed == pc \in {"flush", "closed"}

\* C14 as stated: with maxBatchSize = N > 1, once the input has ended the
\* transformation function has been invoked exactly ceil(M / N) times.
C14_AsStated ==
  (Opt.maxBatchSize > 1 /\ Flushed) =>
     FnCalls = CeilDiv(DataRows, Opt.maxBatchSize)

\* C14: Batching: with maxBatchSize = N > 1 and M data rows received, the
\* i-th invocation made for data rows received, when it was made, rows
\* (i-1)*N+1 .. min(i*N, M) in input order; there are M div N of them before
\* the input ends and ceil(M / N) after; the first row is in no batch, and the
\* only other call of the function is the one on the first row alone when
\* handleHeaders is true.
C14_Batching ==
  Opt.maxBatchSize > 1 =>
    LET N == Opt.maxBatchSize
        M == DataRows
    IN /\ \A i \in 1..Len(invs) :
            /\ invs[i].arg = BatchOf(i, N, M)
            /\ InputRow(1) \notin Range(invs[i].arg.v)
       /\ Flushed => Len(invs) = CeilDiv(M, N)
       /\ pc \in {"idle", "header", "group"} => Len(invs) = M \div N
       /\ Len(invs) \in {M \div N, CeilDiv(M, N)}
       /\ Flushed => FnCalls = CeilDiv(M, N)
                         + (IF consumed > 0 /\ Opt.handleHeaders = "true"
                            THEN 1 ELSE 0)
       /\ headerInv # <<>> => headerInv[1].arg = InputRow(1)

\* C14 witness: three data rows went through a stage of batch size two, which
\* closed after two invocations, the second one on the third row alone.
C14_Witness ==
  /\ pc = "closed"
  /\ Opt.maxBatchSize = 2
  /\ DataRows = 3
  /\ Len(invs) = 2
  /\ invs[1].arg = Arr(<<InputRow(2), InputRow(3)>>)
  /\ invs[2].arg = Arr(<<InputRow(4)>>)

\* C15: Explicit batch size of 1: when maxBatchSize is given as 1, the i-th
\* invocation receives a two-dimensional array holding exactly the i-th data
\* row; when maxBatchSize is not given, it receives the bare row.
C15_ExplicitBatchOfOne ==
  \A i \in 1..Len(invs) :
    /\ options.maxBatchSize = <<1>> => invs[i].arg = Arr(<<InputRow(i + 1)>>)
    /\ options.maxBatchSize = <<>> => invs[i].arg = InputRow(i + 1)

\* #transform has returned from its call on the first row.
HeaderDone == consumed > 0 /\ pc # "header"

\* A call of #wrappedFn was made on the first row, alone or in a batch.
FirstRowInvoked ==
  \E i \in 1..Len(invs) :
    \/ invs[i].arg = InputRow(1)
    \/ /\ Len(invs[i].arg.v) > 0
       /\ IsArray(invs[i].arg.v[1])
       /\ InputRow(1) \in Range(invs[i].arg.v)

RECURSIVE RowsSubmitted(_)
RowsSubmitted(n) ==
  IF n = 0 THEN <<>>
  ELSE RowsSubmitted(n - 1)
       \o (IF Opt.maxBatchSize > 1 THEN invs[n].arg.v ELSE <<invs[n].arg>>)

RowsAsData ==
  RowsSubmitted(Len(invs)) \o (IF Flushed THEN <<>> ELSE batch)

C18_NormalizedKeepsFirstRow ==
  (normalized /\ Opt.handleHeaders = "array" /\ HeaderDone) =>
     /\ headerInv[1].called # <<>>
     /\ headerInv[1].called[1] = "fn"
     /\ headerInv[1].value # HeaderArray

\* The chunks emitted that come from invocation k (0: the header), in order.
ChunksFrom(k) ==
  LET FromK(e) == e.src = k
  IN Chunks(SelectSeq(emitted, FromK))

\* The header's output is settled and handed to #enqueueRow.
HeaderHanded == headerInv # <<>> /\ headerInv[1].status = "fulfilled"

\* C19: Null-row deletion: when the output of the header handler or of an
\* invocation (by the transformation function or by onError) is null, no chunk
\* is emitted for it and the stream is not errored by it (the stream is
\* errored only by a rejection); the outputs of the inputs handed on after it
\* are emitted all the same.
C19_NullDeletion ==
  /\ HeaderHanded /\ IsNullish(headerInv[1].value) =>
       /\ ChunksFrom(0) = <<>>
       /\ pc # "header"
       /\ pc = "errored" => invs # <<>>
  /\ \A k \in 1..Handed :
       IsNullish(invs[k].value) =>
         /\ ChunksFrom(k) = <<>>
         /\ \A j \in (k + 1)..Handed :
              ChunksFrom(j) = enqueueRow(invs[j].value)
  /\ pc = "errored" =>
       /\ error # <<>>
       /\ \/ headerInv[1].status = "rejected"
          \/ \E k \in 1..Len(invs) : invs[k].status = "rejected"

\* C19 witness: the header handler returned null, onError returned null for
\* the first data row, the second data row gave a row, and the stage closed
\* having emitted the chunk of the second data row only.
C19_Witness ==
  /\ pc = "closed"
  /\ HeaderHanded
  /\ IsNullish(headerInv[1].value)
  /\ Len(invs) >= 2
  /\ invs[1].called = <<"fn", "onError">>
  /\ IsNullish(invs[1].value)
  /\ ~IsNullish(invs[2].value)
  /\ Len(emitted) >= 1
  /\ emitted[1].src = 2

\* An array of one or more rows: an array whose elements are all arrays.
IsRows(x) ==
  /\ IsArray(x)
  /\ Len(x.v) >= 1
  /\ \A i \in 1..Len(x.v) : IsArray(x.v[i])

EachSerialized(x) == [i \in 1..Len(x.v) |-> Json(x.v[i])]

\* C20: Multi-row output: when the output of the header handler or of an
\* invocation is an array of k >= 1 rows, exactly k chunks are emitted for it,
\* the serialized rows in the order of the array, next to one another and
\* before every chunk of an input submitted later.
C20_MultiRow ==
  /\ HeaderHanded /\ IsRows(headerInv[1].value) =>
       ChunksFrom(0) = EachSerialized(headerInv[1].value)
  /\ \A k \in 1..Handed :
       IsRows(invs[k].value) =>
         ChunksFrom(k) = EachSerialized(invs[k].value)
  /\ \A i \in 1..Len(emitted) : \A j \in (i + 1)..Len(emitted) :
       emitted[i].src <= emitted[j].src

\* C20 witness: in a group of two, the first invocation returned two rows and
\* the second one row; three chunks were emitted for them, the two rows of the
\* first one ahead.
C20_Witness ==
  /\ Opt.maxConcurrent = 2
  /\ Len(invs) >= 2
  /\ Handed >= 2
  /\ IsRows(invs[1].value)
  /\ Len(invs[1].value.v) = 2
  /\ invs[2].value = OneRow("fn", invs[2].arg)
  /\ \E i \in 1..Len(emitted) :
       /\ i + 2 <= Len(emitted)
       /\ emitted[i] = [chunk |-> Json(invs[1].value.v[1]), src |-> 1]
       /\ emitted[i + 1] = [chunk |-> Json(invs[1].value.v[2]), src |-> 1]
       /\ emitted[i + 2].src = 2

\* The output is handed on as it is: rawOutput is set or it is a string.
IsRaw(x) == ~IsNullish(x) /\ (Opt.rawOutput \/ IsString(x))

\* C21: Raw passthrough: when rawOutput is set or the output of the header
\* handler or of an invocation is a string (and the output is not null),
\* exactly one chunk is emitted for it and that chunk is the output itself,
\* neither serialized nor unpacked.
C21_RawPassthrough ==
  /\ HeaderHanded /\ IsRaw(headerInv[1].value) =>
       ChunksFrom(0) = <<headerInv[1].value>>
  /\ \A k \in 1..Handed :
       IsRaw(invs[k].value) => ChunksFrom(k) = <<invs[k].value>>

\* C21 witness: with rawOutput set, the first invocation returned a string
\* and the second an array of two rows; one chunk was emitted for each, the
\* string and the array of two rows themselves.
C21_Witness ==
  /\ Opt.rawOutput
  /\ Handed >= 2
  /\ invs[1].value = Text("fn", invs[1].arg)
  /\ invs[2].value = TwoRows("fn", invs[2].arg)
  /\ ChunksFrom(1) = <<invs[1].value>>
  /\ ChunksFrom(2) = <<invs[2].value>>

\* The settled calls that onError took part in: those of #wrappedFn and the
\* one of #wrappedHeaderFn.
Settled == [k \in 1..Len(invs) |-> invs[k]] \o headerInv

RecoveredCalls ==
  {k \in 1..Len(Settled) : "onError" \in Range(Settled[k].called)}

\* C22: Error recovery: when onError is configured and a call of the
\* transformation function (or of the header function) fails, onError is
\* called exactly once, with the input given to the failed call, the error it
\* threw and the function; what onError returns is the output of the call;
\* the stream is not errored by the failure, and the output is emitted in the
\* call's position.
C22_ErrorRecovery ==
  /\ \A k \in RecoveredCalls :
       LET c == Settled[k]
           f == c.called[1]
       IN /\ c.called = <<f, "onError">>
          /\ Len(c.errArgs) = 3
          /\ c.errArgs[1] = c.arg
          /\ c.errArgs[2] \in Throws(f, c.arg)
          /\ c.errArgs[3] = f
          /\ c.status = "fulfilled" =>
               c.value \in {OneRow("onError", c.arg), Null}
  /\ \A k \in 1..Handed :
       "onError" \in Range(invs[k].called) =>
          /\ invs[k].status = "fulfilled"
          /\ ChunksFrom(k) = enqueueRow(invs[k].value)

\* C23: No double recovery: when onError itself fails, it has been called
\* once for that call; the call's promise rejects with the error of onError,
\* not with the one it was called for; the stream is errored with that error,
\* and no chunk is emitted for that invocation or for a later one.
C23_NoDoubleRecovery ==
  /\ \A k \in RecoveredCalls :
       LET c == Settled[k]
       IN c.status = "rejected" =>
            /\ Len(c.called) = 2
            /\ c.called[2] = "onError"
            /\ c.value = Err("onError", c.errArgs[1])
            /\ c.value # c.errArgs[2]
  /\ (pc = "errored" /\ Opt.onError # "null") =>
       IF headerInv[1].status = "rejected"
       THEN /\ error = <<headerInv[1].value>>
            /\ "onError" \in Range(headerInv[1].called)
            /\ emitted = <<>>
       ELSE LET k == Handed + 1
            IN /\ invs[k].status = "rejected"
               /\ "onError" \in Range(invs[k].called)
               /\ error = <<invs[k].value>>
               /\ \A i \in 1..Len(emitted) : emitted[i].src < k

\* C23 witness: in a group of two, onError failed for the first invocation
\* and the second returned a row; the stream is errored with the error of
\* onError and nothing but the header's output was emitted.
C23_Witness ==
  /\ pc = "errored"
  /\ Len(invs) = 2
  /\ invs[1].called = <<"fn", "onError">>
  /\ invs[1].status = "rejected"
  /\ error = <<Err("onError", invs[1].arg)>>
  /\ invs[2].value = OneRow("fn", invs[2].arg)
  /\ Len(emitted) = 1
  /\ emitted[1].src = 0

\* The invocations whose promise is rejected.
Failed == {k \in 1..Len(invs) : invs[k].status = "rejected"}

\* C24: Fatal by default: with no onError, when the stream is errored after
\* invocations of a group failed, whatever the order in which they settled, it
\* is errored with the failure of the one submitted first among them; the
\* outputs of the invocations submitted before that one have been emitted, in
\* order, and no chunk of that one or of a later one is emitted.
C24_FatalByDefault ==
  (pc = "errored" /\ Opt.onError = "null" /\ Failed # {}) =>
     LET k == CHOOSE f \in Failed : \A g \in Failed : f <= g
     IN /\ error # <<>>
        /\ error[1] \in {invs[k].value, Err("Error", invs[k].value)}
        /\ \A g \in Failed : g # k => error[1] # invs[g].value
        /\ Chunks(emitted) = HeaderChunks \o InSubmissionOrder(k - 1)
        /\ \A i \in 1..Len(emitted) : emitted[i].src < k

\* C24 witness: with no onError, both invocations of a group of two failed,
\* the later one first; the stream is errored with the failure of the earlier
\* one and only the header's output was emitted.
C24_Witness ==
  /\ pc = "errored"
  /\ Opt.onError = "null"
  /\ Opt.maxConcurrent = 2
  /\ Failed = {1, 2}
  /\ invs[1].overtaken
  /\ error = <<invs[1].value>>
  /\ Len(emitted) = 1
  /\ emitted[1].src = 0

\* The reason of the rejection the stream is errored for.
FatalReason ==
  IF headerInv[1].status = "rejected" THEN headerInv[1].value
  ELSE invs[Handed + 1].value

\* C25: Rejection normalization: when the stream is errored because an
\* invocation rejected, the error it is errored with is an Error: the reason
\* of the rejection when that is an Error, and otherwise a new Error made from
\* the reason.
C25_ErrorNormalized ==
  pc = "errored" =>
    /\ error # <<>>
    /\ error[1].t = "error"
    /\ FatalReason.t = "error" => error[1] = FatalReason
    /\ FatalReason.t # "error" => error[1] = Err("Error", FatalReason)

----------------------------------------------------------------------------
(* ErrorStrategies: the handlers given as onError *)

MaxIterations == 2   \* the iterations given to retry and backoff: 0..MaxIterations
MaxFields == 2       \* the fields of a failed row: 0..MaxFields
MaxCalls == 2        \* the failed inputs a handler is called with
MaxRetries == 3      \* the re-invocations followed, of all calls together
MaxExponent == 0     \* the maxExponent given to backoff: 0..MaxExponent

\* (2 ** exponent) * 1000 and Math.random() * 1000
BackoffBase == 2

BackoffUnit == 1000

JitterRange == 1000

\* The i-th failed input row, of k fields, and the value given as placeholder.
FailedRow(i, k) == Arr([j \in 1..k |-> Str(i)])

PlaceholderValue == Str(0)

\* The error thrown by the r-th re-invocation of fn with row (r = 0: by the
\* invocation whose failure made the stage call the handler).
Thrown(a, r) == [t |-> "error", v |-> <<"fn", a, r>>]

\* The handlers: what the factory was called with.
Strategies ==
  [name : {"skip"}, iterations : {0}, interval : {<<>>},
   maxExponent : {<<>>}, placeholder : {<<>>}]
  \cup [name : {"placeholder"}, iterations : {0}, interval : {<<>>},
        maxExponent : {<<>>}, placeholder : {<<PlaceholderValue>>}]
  \cup [name : {"retry"}, iterations : 0..MaxIterations, interval : {<<>>},
        maxExponent : {<<>>}, placeholder : Given({PlaceholderValue})]
  \cup [name : {"backoff"}, iterations : 0..MaxIterations, interval : {<<>>},
        maxExponent : Given(0..MaxExponent),
        placeholder : Given({PlaceholderValue})]

\* A stage whose onError is a handler made by ErrorStrategies, and no call
\* of the handler yet.
InitStrategies ==
  /\ InitReader
  /\ NoWriter
  /\ options \in OptionsSet
  /\ options.onError = <<"function">>
  /\ options.handleHeaders = <<>>
  /\ options.rawOutput = <<>>
  /\ options.maxBatchSize = <<>>
  /\ normalized = FALSE
  /\ fn = {}
  /\ firstChunk = TRUE
  /\ batch = <<>>
  /\ concurrent = <<>>
  /\ invs = <<>>
  /\ headerInv = <<>>
  /\ emitted = <<>>
  /\ consumed = 0
  /\ pc = "idle"
  /\ error = <<>>
  /\ strategy \in Strategies
  /\ iterations = strategy.iterations
  /\ calls = <<>>

\* Filling an empty row with no field at all.
placeholderSameLength(value, a) == Arr([j \in 1..Len(a.v) |-> value])

\* placeholder(value)(row)
placeholder(value, a) ==
  IF Len(a.v) = 0 THEN Arr(<<value>>)
  ELSE Arr([j \in 1..Len(a.v) |-> value])

\* skip()(row)
skip(a) == Null

\* A call onError(row, e, fn) of the handler that has just begun. retries
\* counts the re-invocations of fn, n is the loop variable of backoff and
\* lastErr the error of the last invocation of fn with row; exhausted tells
\* that the call left the loop of retry or backoff by its test.
NewCall(a) ==
  [row |-> a, e |-> Thrown(a, 0), pc |-> "begun", n |-> 0, retries |-> 0,
   sleeps |-> 0, slept |-> 0, lastErr |-> Thrown(a, 0), value |-> Null,
   thrown |-> Thrown(a, 0), exhausted |-> FALSE]

Returned(c, x) == [c EXCEPT !.pc = "returned", !.value = x]

\* The call awaits utils.sleep(ms): sleeps counts the sleeps of the call and
\* slept is the duration of the last one.
Sleeping(c, ms) ==
  [c EXCEPT !.pc = "sleeping", !.sleeps = @ + 1, !.slept = ms]

\* After the loop: the placeholder row if options.placeholder is set,
\* otherwise throw e.
Exhausted(c) ==
  IF strategy.placeholder # <<>>
  THEN [Returned(c, placeholder(strategy.placeholder[1], c.row))
          EXCEPT !.exhausted = TRUE]
  ELSE [c EXCEPT !.pc = "thrown", !.thrown = c.e, !.exhausted = TRUE]

\* calls with c as its i-th call.
Put(i, c) ==
  IF i = Len(calls) + 1 THEN Append(calls, c) ELSE [calls EXCEPT ![i] = c]

\* The exponent of the n-th sleep whatever maxExponent is.
ExponentUncapped(n, maxExponent) == n

\* const exponent = n > maxExponent ? maxExponent : n, maxExponent being
\* Infinity when the option is unset.
Exponent(n, maxExponent) ==
  IF maxExponent # <<>> /\ n > maxExponent[1] THEN maxExponent[1] ELSE n

\* const duration = (2 ** exponent) * 1000
Duration(n) == (BackoffBase ^ Exponent(n, strategy.maxExponent)) * BackoffUnit

\* Math.random() * 1000: the least value and the greatest whole one.
Jitters == {0, JitterRange - 1}

\* The loop test of retry, while (iterations--), and what follows it up to
\* the next await or the end of the call.
retry(i, c) ==
  /\ iterations' = iterations - 1
  /\ calls' = Put(i, IF iterations # 0
                     THEN Sleeping(c, OrElse(strategy.interval, 0))
                     ELSE Exhausted(c))

\* The loop test of backoff, n < iterations, and what follows it.
backoff(i, c) ==
  /\ UNCHANGED iterations
  /\ IF c.n < iterations
     THEN \E jitter \in Jitters :
            calls' = Put(i, Sleeping(c, Duration(c.n) + jitter))
     ELSE calls' = Put(i, Exhausted(c))

\* The numbers of fields of the failed rows: any for placeholder, none or
\* the most when placeholder is an option of the handler, and one when the
\* handler never fills a row.
Widths ==
  IF strategy.name = "placeholder" THEN 0..MaxFields
  ELSE IF strategy.placeholder # <<>> THEN {0, MaxFields}
  ELSE {1}

\* The calls of the handler that have not settled.
Unsettled == {i \in 1..Len(calls) : calls[i].pc \in {"sleeping", "calling"}}

\* The catch clause of #wrappedFn calls the handler for one more failed
\* input: after the calls made so far (sequentially), or while calls made for
\* the same concurrency group are still unsettled.
CallHandler ==
  /\ Len(calls) < MaxCalls
  /\ Cardinality(Unsettled) < Opt.maxConcurrent
  /\ (\E j \in 1..Len(calls) : calls[j].pc = "thrown")
       => Len(calls) < Opt.maxConcurrent
  /\ \E k \in Widths :
       LET i == Len(calls) + 1
           c == NewCall(FailedRow(i, k))
       IN CASE strategy.name = "skip" ->
                 /\ calls' = Put(i, Returned(c, skip(c.row)))
                 /\ UNCHANGED iterations
            [] strategy.name = "placeholder" ->
                 /\ calls' = Put(i, Returned(c, placeholder(
                                                  strategy.placeholder[1],
                                                  c.row)))
                 /\ UNCHANGED iterations
            [] strategy.name = "retry" -> retry(i, c)
            [] OTHER -> backoff(i, c)
  /\ UNCHANGED strategy
  /\ UNCHANGED <<rvars, tvars, wvars>>

\* The re-invocations of fn made so far by the first n calls.
RECURSIVE Retries(_)
Retries(n) == IF n = 0 THEN 0 ELSE Retries(n - 1) + calls[n].retries

\* The sleep of a call is over: try { return await fn(row); }
Wake(i) ==
  /\ calls[i].pc = "sleeping"
  /\ Retries(Len(calls)) < MaxRetries
  /\ calls' = [calls EXCEPT ![i].pc = "calling", ![i].retries = @ + 1]
  /\ UNCHANGED <<strategy, iterations>>
  /\ UNCHANGED <<rvars, tvars, wvars>>

WakeAny == \E i \in 1..Len(calls) : Wake(i)

\* The promise of fn(row) is fulfilled with a row: the handler returns it.
FnReturns(i) ==
  /\ calls[i].pc = "calling"
  /\ calls' = [calls EXCEPT ![i] = Returned(@, OneRow("fn", calls[i].row))]
  /\ UNCHANGED <<strategy, iterations>>
  /\ UNCHANGED <<rvars, tvars, wvars>>

\* The promise of fn(row) is rejected: catch { }, and the loop goes on.
FnThrows(i) ==
  /\ calls[i].pc = "calling"
  /\ LET c == [calls[i] EXCEPT
                 !.lastErr = Thrown(calls[i].row, calls[i].retries)]
     IN IF strategy.name = "retry" THEN retry(i, c)
        ELSE backoff(i, [c EXCEPT !.n = @ + 1])
  /\ UNCHANGED strategy
  /\ UNCHANGED <<rvars, tvars, wvars>>

FnSettles == \E i \in 1..Len(calls) : FnReturns(i) \/ FnThrows(i)

NextStrategies == CallHandler \/ WakeAny \/ FnSettles

SpecStrategies == InitStrategies /\ [][NextStrategies]_vars

----------------------------------------------------------------------------
(* Claims about ErrorStrategies, checked under SpecStrategies *)

\* C26: retry(n) retries each failed input independently: for every failed
\* input, the first and every later one, the handler re-invokes the function
\* at most n times, and exactly n times when all re-invocations fail.
C26_RetryPerInput ==
  strategy.name = "retry" =>
    \A i \in 1..Len(calls) :
      /\ calls[i].retries <= strategy.iterations
      /\ calls[i].exhausted => calls[i].retries = strategy.iterations

\* C27: Retry exhaustion result: when the function still fails after the
\* last retry of retry(n) or backoff(n), the handler returns the placeholder
\* row if a placeholder is configured, and otherwise throws the error of the
\* last invocation of the function.
C27_ExhaustionResult ==
  \A i \in 1..Len(calls) :
    calls[i].exhausted =>
      IF strategy.placeholder # <<>>
      THEN /\ calls[i].pc = "returned"
           /\ calls[i].value = placeholder(PlaceholderValue, calls[i].row)
      ELSE /\ calls[i].pc = "thrown"
           /\ calls[i].thrown = calls[i].lastErr

\* 1000 * 2^min(k, m), m being unset when there is no maxExponent.
C28_Floor(k, m) ==
  IF m # <<>> /\ m[1] < k THEN 1000 * 2 ^ m[1] ELSE 1000 * 2 ^ k

\* C28: Backoff schedule: before its k-th re-invocation (k = 0 .. n-1) of a
\* failed input the handler of backoff(n, {maxExponent: m}) sleeps d ms with
\* 1000 * 2^min(k, m) <= d < 1000 * 2^min(k, m) + 1000; it sleeps before
\* every re-invocation and never after the last one, and the schedule
\* restarts at k = 0 for every failed input.
C28_BackoffSchedule ==
  strategy.name = "backoff" =>
    \A i \in 1..Len(calls) :
      LET c == calls[i]
          k == c.retries
      IN /\ c.retries <= strategy.iterations
         /\ c.sleeps = (IF c.pc = "sleeping" THEN k + 1 ELSE k)
         /\ c.pc = "sleeping" =>
              /\ k < strategy.iterations
              /\ C28_Floor(k, strategy.maxExponent) <= c.slept
              /\ c.slept < C28_Floor(k, strategy.maxExponent) + 1000
         /\ c.exhausted => c.retries = strategy.iterations

\* C28 witness: with maxExponent 0, a failed input sleeps less than 2000 ms
\* before its second re-invocation, after an earlier failed input went
\* through the whole schedule, and with the greatest jitter.
C28_Witness ==
  /\ strategy.name = "backoff"
  /\ strategy.maxExponent = <<0>>
  /\ Len(calls) = 2
  /\ calls[1].exhausted
  /\ calls[1].retries = 2
  /\ calls[2].pc = "sleeping"
  /\ calls[2].retries = 1
  /\ calls[2].slept = 1999

\* A row of max(k, 1) fields, each of them x.
C29_Filled(k, x) == Arr([j \in 1..(IF k = 0 THEN 1 ELSE k) |-> x])

\* C29: For a failed input row of k fields the handler of placeholder(v)
\* yields exactly one output row, of max(k, 1) fields each equal to v; the
\* handler of skip() yields no output row for a failed input, and neither
\* handler fails, so the stage goes on emitting the rows of the other inputs.
C29_PlaceholderAndSkip ==
  \A i \in 1..Len(calls) :
    /\ strategy.name = "placeholder" =>
         /\ calls[i].pc = "returned"
         /\ enqueueRow(calls[i].value) =
              <<Json(C29_Filled(Len(calls[i].row.v), PlaceholderValue))>>
    /\ strategy.name = "skip" =>
         /\ calls[i].pc = "returned"
         /\ enqueueRow(calls[i].value) = <<>>

\* C29 witness: the handler of placeholder(v) was called for an empty row
\* and then for a row of two fields.
C29_Witness ==
  /\ strategy.name = "placeholder"
  /\ Len(calls) = 2
  /\ Len(calls[1].row.v) = 0
  /\ Len(calls[1].value.v) = 1
  /\ Len(calls[2].row.v) = 2
  /\ Len(calls[2].value.v) = 2

----------------------------------------------------------------------------
(* CSVWriter: the sink *)

MaxWrites == 2   \* chunks written to one writer
MaxData == 3     \* characters written to its file

\* The chunks a writer may be given when its file holds size characters:
\* serialized rows of strings and strings made otherwise.
WriterChunks(size) ==
  LET left == MaxData - size
  IN {c \in {Json(arr) : arr \in UNION {RowsOf(n, Min(MaxChars, left)) :
                                          n \in 0..Min(MaxCells, left)}}
            \cup {Raw(text) : text \in SeqsUpTo(Alphabet, left)} :
        Len(Data(c)) <= left}

\* One more chunk reaches the writer.
WriteAny ==
  /\ handle = "open"
  /\ wstate = "writable"
  /\ Len(file) < MaxWrites
  /\ \E chunk \in WriterChunks(Len(FileText)) : write(chunk)
  /\ UNCHANGED <<row, field, lastChar, escapeMode, justExitedEscapeMode,
                 out, chunks, done, source, csvReader>>
  /\ UNCHANGED <<tvars, svars>>

\* close() of the sink: the handle is closed and the status completed.
close ==
  /\ handle' = "closed"
  /\ status' = [status EXCEPT !.elapsed = now - status.start, !.done = TRUE]

\* The stream is closed once its writes are done: the close callback.
WriterClose ==
  /\ handle = "open"
  /\ wstate = "writable"
  /\ wstate' = "closed"
  /\ close
  /\ UNCHANGED <<received, now>>
  /\ UNCHANGED <<rvars, tvars, svars>>

NextWriter == WriteAny \/ WriterClose

SpecWriter == Init /\ [][NextWriter]_vars

\* C30: CSVWriter row count: after any sequence of chunks status.rows is the
\* number of CSV rows written so far: it grew by exactly 1 for each JSON row
\* chunk, whatever its number of fields, and by exactly 1 for each raw
\* string chunk.
C30_RowCount == status.rows = Len(file)

\* C31: CSVWriter raw passthrough: a chunk that is already CSV text is
\* written to the file unchanged, a record made of one quoted field
\* included, while a chunk that is a JSON-serialized row is written as
\* arrayToCSVString of that row.
C31_WriterPassthrough ==
  /\ Len(file) = Len(received)
  /\ \A i \in 1..Len(received) :
       IF received[i].t = "json"
       THEN file[i] = arrayToCSVString(Parse(received[i]))
       ELSE file[i] = received[i].v

----------------------------------------------------------------------------
(* CSVWriter: the life of the sink *)

MaxTime == 2   \* the milliseconds that pass while a writer is observed

\* A writer just constructed: start() has not opened the file yet.
InitSink ==
  /\ InitReader
  /\ NoTransformer
  /\ NoStrategy
  /\ status = [rows |-> 0, done |-> FALSE, start |-> 0, elapsed |-> 0]
  /\ received = <<>>
  /\ handle = "none"
  /\ wstate = "writable"
  /\ now = 0

\* The start callback of the sink: mkdir, then open(fullPath, 'w').
WriterStart ==
  /\ handle = "none"
  /\ handle' = "open"
  /\ UNCHANGED <<status, received, wstate, now>>
  /\ UNCHANGED <<rvars, tvars, svars>>

\* An abort callback that leaves the sink as it is.
abortNothing == UNCHANGED <<handle, status>>

\* abort() of the sink: await this.close()
abort == close

\* The writer is aborted, or the stream piped into it errors: the stream
\* calls the abort callback once start() is over and no write is in flight.
WriterAbort ==
  /\ handle = "open"
  /\ wstate = "writable"
  /\ wstate' = "errored"
  /\ abort
  /\ UNCHANGED <<received, now>>
  /\ UNCHANGED <<rvars, tvars, svars>>

\* Time passes.
Tick ==
  /\ now < MaxTime
  /\ now' = now + 1
  /\ UNCHANGED <<status, received, handle, wstate>>
  /\ UNCHANGED <<rvars, tvars, svars>>

\* get status(): elapsed is brought up to date while the writer is not done.
GetStatus ==
  /\ status' = IF ~status.done
               THEN [status EXCEPT !.elapsed = now - status.start]
               ELSE status
  /\ UNCHANGED <<received, handle, wstate, now>>
  /\ UNCHANGED <<rvars, tvars, svars>>

NextSink ==
  \/ WriterStart
  \/ WriteRow
  \/ WriterClose
  \/ WriterAbort
  \/ Tick
  \/ GetStatus

SpecSink == InitSink /\ [][NextSink]_vars

\* C32: Sink failure and abort: when the stream piped into a CSVWriter
\* errors or the writer is aborted after k chunks were written, the file
\* handle is closed and status.done is true, the k rows written remain in
\* the file and no chunk is written afterwards; once status.done is true it
\* stays true and status.elapsed no longer changes.
C32_AbortCloses ==
  /\ [](wstate # "writable" => (handle = "closed" /\ status.done))
  /\ [][wstate # "writable" =>
          /\ file' = file
          /\ received' = received
          /\ handle' = "closed"]_vars
  /\ [][status.done =>
          /\ status'.done
          /\ status'.elapsed = status.elapsed]_vars

\* C32 witness: a writer aborted after two rows were written, observed
\* later than the time it took.
C32_Witness ==
  /\ wstate = "errored"
  /\ handle = "closed"
  /\ status.done
  /\ Len(file) = 2
  /\ status.elapsed = 1
  /\ now = 2

----------------------------------------------------------------------------
(* Claims about the end of the input and about batches *)

\* C33: Flush completeness: when the input has ended and the stage has
\* closed, the remaining partial batch was submitted as one last invocation
\* and the pending group drained: every data row received was passed to
\* exactly one invocation, in order, every invocation has settled and its
\* output was emitted, and neither the batch buffer nor the concurrency
\* group holds a row or a promise that was not delivered.
C33_FlushComplete ==
  pc = "closed" =>
    /\ RowsSubmitted(Len(invs)) = [j \in 1..DataRows |-> InputRow(j + 1)]
    /\ concurrent = <<>>
    /\ \A k \in 1..Len(invs) :
         /\ invs[k].status = "fulfilled"
         /\ Cardinality({i \in 1..Len(emitted) : emitted[i].src = k})
              = Len(enqueueRow(invs[k].value))
    /\ batch # <<>> => /\ invs # <<>>
                       /\ invs[Len(invs)].arg = Arr(batch)

\* C33 witness: a stage with batches of two and groups of two closed after
\* three data rows: the last batch holds one row and was drained by #flush.
C33_Witness ==
  /\ pc = "closed"
  /\ Opt.maxBatchSize = 2
  /\ Opt.maxConcurrent = 2
  /\ DataRows = 3
  /\ Len(invs) = 2
  /\ Len(invs[2].arg.v) = 1
  /\ \E i \in 1..Len(emitted) : emitted[i].src = 2

----------------------------------------------------------------------------
(* Claims about quotes in the decoder, checked under Spec *)

\* The decoder state before the last n characters received were consumed.
C34_Before(n) == PrefixState(fed, Len(fed) - n)

\* C34: Escaped quotes and lenient quotes: inside a quoted field two
\* consecutive double quotes add exactly one double quote to the field and
\* leave the decoder in quoted mode; a double quote met in normal mode whose
\* previous input character is neither a comma, a line feed nor the start of
\* input, and which does not directly follow a closing quote, is appended to
\* the field as a literal and the decoder stays in normal mode.
C34_Quotes ==
  ~done =>
    /\ (/\ Len(fed) >= 2
        /\ fed[Len(fed) - 1] = QUOTE
        /\ fed[Len(fed)] = QUOTE
        /\ C34_Before(2).escapeMode)
         => /\ escapeMode
            /\ field = Append(C34_Before(2).field, QUOTE)
            /\ row = C34_Before(2).row
            /\ out = C34_Before(2).out
    /\ (/\ Len(fed) >= 2
        /\ fed[Len(fed)] = QUOTE
        /\ fed[Len(fed) - 1] \notin {COMMA, LF}
        /\ ~C34_Before(1).escapeMode
        /\ ~C34_Before(1).justExitedEscapeMode)
         => /\ ~escapeMode
            /\ field = Append(C34_Before(1).field, QUOTE)
            /\ row = C34_Before(1).row
            /\ out = C34_Before(1).out

\* C34 witness: a quoted field holds one double quote after the two quotes
\* of a pair came in two chunks, and the decoder is in quoted mode.
C34_Witness ==
  /\ ~done
  /\ chunks = << <<QUOTE, QUOTE>>, <<QUOTE>> >>
  /\ escapeMode
  /\ field = <<QUOTE>>

----------------------------------------------------------------------------
(* createFileStream and the CSVReader that reads from it *)

MaxFile == 2   \* the bytes of the file read

\* The variables of the decoder and of the encoder.
dvars == <<row, field, lastChar, escapeMode, justExitedEscapeMode, out,
           chunks, done, written, file>>

\* A file stream just made, by a CSVReader (piped) or for a consumer that
\* reads and cancels it directly, on a file of 0..MaxFile bytes.
InitSource ==
  /\ row = <<>>
  /\ field = <<>>
  /\ lastChar = NULL
  /\ escapeMode = FALSE
  /\ justExitedEscapeMode = FALSE
  /\ out = <<>>
  /\ chunks = <<>>
  /\ done = FALSE
  /\ written = <<>>
  /\ file = <<>>
  /\ NoTransformer
  /\ NoStrategy
  /\ NoWriter
  /\ \E n \in 0..MaxFile, p \in BOOLEAN :
       source = [NoSource EXCEPT !.size = n, !.piped = p]
  /\ csvReader = NoReads

\* handle.close() of Node.js on a handle h: the handle is closed once the
\* operations pending on it are over, and a handle that is closing or
\* closed is left as it is.
CloseHandle(h) == IF h = "open" THEN "closing" ELSE h

\* The source after a call of handle.close().
Closing(src) ==
  [src EXCEPT !.handle = CloseHandle(@),
              !.closeCalls = @ + 1,
              !.misuse = @ \/ src.handle = "none"]

\* Closing the handle without waiting for start().
CancelAtOnce == TRUE

\* await ready in cancel(): the promise start() resolves after open().
CancelMayClose == source.ready

\* start(): handle = await open(path, "r"); resolveReady()
FileStart ==
  /\ source.handle = "none"
  /\ ~source.ready
  /\ source' = [source EXCEPT !.handle = "open", !.ready = TRUE]
  /\ UNCHANGED csvReader
  /\ UNCHANGED <<dvars, tvars, svars, wvars>>

\* The stream calls pull() when start() is over, the stream is readable, no
\* pull is in flight and a read of the consumer is waiting (the pipe to the
\* decoder reads ahead of the CSVReader's own pulls); pull() issues
\* handle.read and awaits it.
FilePull ==
  /\ source.ready
  /\ source.state = "readable"
  /\ source.pull = "idle"
  /\ source' = [source EXCEPT !.pull = "reading",
                              !.reads = @ + 1,
                              !.misuse = @ \/ source.handle # "open"]
  /\ csvReader' = [csvReader EXCEPT
                     !.readsSince = IF csvReader.cancelled THEN @ + 1 ELSE @]
  /\ UNCHANGED <<dvars, tvars, svars, wvars>>

\* handle.read settles with bytesRead: at the end of the file pull() calls
\* handle.close() and awaits it; otherwise it moves position and responds,
\* which throws if the stream was cancelled meanwhile.
FileRead ==
  /\ source.pull = "reading"
  /\ IF source.position = source.size
     THEN source' = [Closing(source) EXCEPT !.pull = "closing"]
     ELSE \E bytesRead \in 1..(source.size - source.position) :
            source' = [source EXCEPT !.position = @ + bytesRead,
                                     !.pull = "idle"]
  /\ UNCHANGED csvReader
  /\ UNCHANGED <<dvars, tvars, svars, wvars>>

\* The file handle is closed: no operation is pending on it.
HandleClosed ==
  /\ source.handle = "closing"
  /\ source.pull # "reading"
  /\ source' = [source EXCEPT !.handle = "closed", !.closes = @ + 1]
  /\ UNCHANGED csvReader
  /\ UNCHANGED <<dvars, tvars, svars, wvars>>

\* pull() after await handle.close(): controller.close(), which throws if
\* the stream was cancelled meanwhile, and byobRequest.respond(0).
FileEnd ==
  /\ source.pull = "closing"
  /\ source.handle = "closed"
  /\ source' = [source EXCEPT !.pull = "ended", !.state = "closed"]
  /\ UNCHANGED csvReader
  /\ UNCHANGED <<dvars, tvars, svars, wvars>>

\* The consumer cancels the file stream: the stream is closed at once and
\* cancel() is called, which awaits ready.
FileCancel ==
  /\ ~source.piped
  /\ source.state = "readable"
  /\ source.cancel = "none"
  /\ source' = [source EXCEPT !.state = "closed", !.cancel = "waiting"]
  /\ UNCHANGED csvReader
  /\ UNCHANGED <<dvars, tvars, svars, wvars>>

\* cancel() after await ready: return handle.close()
FileCancelClose ==
  /\ source.cancel = "waiting"
  /\ CancelMayClose
  /\ source' = [Closing(source) EXCEPT !.cancel = "closing"]
  /\ UNCHANGED csvReader
  /\ UNCHANGED <<dvars, tvars, svars, wvars>>

\* The promise returned by cancel() settles.
FileCancelled ==
  /\ source.cancel = "closing"
  /\ source.handle = "closed"
  /\ source' = [source EXCEPT !.cancel = "done"]
  /\ UNCHANGED csvReader
  /\ UNCHANGED <<dvars, tvars, svars, wvars>>

\* The CSVReader's pull(controller) up to await reader.read().
ReaderPull ==
  /\ source.piped
  /\ csvReader.state = "readable"
  /\ ~csvReader.pulling
  /\ csvReader' = [csvReader EXCEPT !.pulling = TRUE]
  /\ UNCHANGED source
  /\ UNCHANGED <<dvars, tvars, svars, wvars>>

\* reader.read() settles, with the rows of the bytes read since the last
\* time or with done once the file stream has ended: pull() enqueues the
\* value or closes the CSVReader (either throws, to no effect, if the
\* CSVReader was cancelled meanwhile).
ReaderPulled ==
  /\ csvReader.pulling
  /\ \/ /\ source.position > csvReader.taken
        /\ csvReader' = [csvReader EXCEPT !.pulling = FALSE,
                                          !.taken = source.position]
     \/ /\ source.position = csvReader.taken
        /\ source.pull = "ended"
        /\ csvReader' = [csvReader EXCEPT !.pulling = FALSE,
                                          !.state = "closed"]
  /\ UNCHANGED source
  /\ UNCHANGED <<dvars, tvars, svars, wvars>>

\* cancel() is called on the CSVReader: its underlying source has no
\* cancel(), so the stream is closed and nothing else is done.
ReaderCancel ==
  /\ source.piped
  /\ csvReader.state = "readable"
  /\ csvReader' = [csvReader EXCEPT !.state = "closed", !.cancelled = TRUE]
  /\ UNCHANGED source
  /\ UNCHANGED <<dvars, tvars, svars, wvars>>

NextSource ==
  \/ FileStart
  \/ FilePull
  \/ FileRead
  \/ HandleClosed
  \/ FileEnd
  \/ FileCancel
  \/ FileCancelClose
  \/ FileCancelled
  \/ ReaderPull
  \/ ReaderPulled
  \/ ReaderCancel

SpecSource == InitSource /\ [][NextSource]_vars

\* C35: File stream handle lifecycle: for every interleaving of start, pull,
\* end of file and cancel (cancel before start has opened the file and
\* cancel while a pull awaits a read included), the file handle is never
\* closed before it is opened, is closed exactly once, and no read is issued
\* on it after it has been closed.
C35_HandleLifecycle ==
  /\ ~source.misuse
  /\ source.closes <= 1
  /\ source.handle = "closed" <=> source.closes = 1
  /\ source.handle \in {"closing", "closed"} => source.pull # "idle"
                                                \/ source.state = "closed"
  /\ (source.pull = "ended" \/ source.cancel = "done") => source.closes = 1

\* C35 witness: the stream was cancelled before start() had opened the file
\* and the handle was closed all the same, once, without any read.
C35_Witness ==
  /\ ~source.piped
  /\ source.cancel = "done"
  /\ source.reads = 0
  /\ source.closeCalls = 1
  /\ source.closes = 1

----------------------------------------------------------------------------
(* Claims about the batch as an object *)

\* What the value handed to the k-th call of #wrappedFn holds now: a batch
\* is this.#batch itself, the one array #transform fills and empties; a row
\* is an array parsed for that call alone.
Contents(k) == IF Batching THEN Arr(batch) ELSE invs[k].arg

\* C36: Submitted batches are not modified by the stage: from the moment a
\* batch is handed to an invocation until that invocation has settled, the
\* batch holds exactly the rows it held at submission, in the same order.
C36_BatchUntouched ==
  \A k \in 1..Len(invs) : IsPending(k) => Contents(k) = invs[k].arg

\* C37: Identity under batching: with maxBatchSize = N > 1, any maxConcurrent
\* and a function that returns the batch it received unchanged, the stage
\* emits the header followed by exactly the data rows it received, each once
\* and in input order: once it has closed, its chunks are the input chunks.
C37_IdentityBatches ==
  pc = "closed" => Chunks(emitted) = [i \in 1..consumed |-> InputChunk(i)]

\* Whether the k-th invocation was fulfilled with an array of rows, the array
\* of no rows included.
GaveRows(k) ==
  /\ invs[k].status = "fulfilled"
  /\ invs[k].value.t = "array"
  /\ invs[k].value.v = <<>> \/ IsArray(invs[k].value.v[1])

\* C39: Empty multi-row output: when a transformation returns an empty array
\* of rows, the stage emits zero output rows for that input: the number of
\* chunks emitted for an array-of-rows output equals the array's length.
C39_RowsPerArray ==
  \A k \in 1..Handed :
    GaveRows(k) =>
      Cardinality({i \in 1..Len(emitted) : emitted[i].src = k})
        = Len(invs[k].value.v)

\* C38: Retry termination: with onError set to retry(n, {placeholder}) and a
\* function that fails on every call, every data row leads to finitely many
\* invocations and then yields its placeholder row: while a call of the
\* handler is in its loop the counter the loop counts down has not passed
\* zero, so the loop ends, and a call that has left the loop has returned the
\* placeholder row and thrown nothing.
C38_RetryTerminates ==
  (strategy.name = "retry" /\ strategy.placeholder # <<>>) =>
    \A i \in 1..Len(calls) :
      /\ i \in Unsettled => iterations >= 0
      /\ calls[i].pc # "thrown"
      /\ calls[i].exhausted =>
           /\ calls[i].pc = "returned"
           /\ calls[i].value = placeholder(strategy.placeholder[1],
                                           calls[i].row)

\* C40: Reader cancellation releases the source: after cancel() is called on
\* a CSVReader at any point, every later read reports done (the stream is
\* closed), no further chunk is pulled from the file, and the underlying file
\* stream is cancelled, so that its file handle is closed in the end.
C40_CancelReleases ==
  csvReader.cancelled =>
    /\ csvReader.state = "closed"
    /\ csvReader.readsSince = 0
    /\ source.cancel # "none"

====
